---- MODULE Spec2Model ----
(***************************************************************************)
(* Model of the consulkv parser: Parser.Parse binds the values of a        *)
(* key-value store into the fields of a target structure, driven by the    *)
(* `consulkv` field tags.                                                   *)
(*                                                                         *)
(* Texts are sequences of one-character strings, integers are sign and     *)
(* decimal magnitude (a sequence of digits), so that the 64-bit limits of  *)
(* strconv and the 8/16/32/64-bit limits of reflect keep their real        *)
(* values.  Floats are decimal mantissa and exponent: binary rounding is   *)
(* not modelled, the texts used stay away from the rounding boundaries.    *)
(* The platform is taken to be 64-bit (int, uint and uintptr are 64 bits   *)
(* wide).                                                                   *)
(***************************************************************************)
EXTENDS Integers, Sequences, FiniteSets, TLC

(***************************************************************************)
(* Bounds                                                                  *)
(***************************************************************************)
\* deepest pointer nesting of a generated field type (T, *T, ..., 3 stars)
MaxPtrDepth == 3

\* the calls of parse that fit the stack of the goroutine one inside the
\* other (in the Go runtime the limit is the maximum stack size, 1 GB)
MaxNesting == 4

(***************************************************************************)
(* Characters, digits and decimal magnitudes                               *)
(***************************************************************************)
DigitChars == <<"0", "1", "2", "3", "4", "5", "6", "7", "8", "9">>

IsDigit(c) == \E d \in 0..9 : DigitChars[d + 1] = c

DigitVal(c) == CHOOSE d \in 0..9 : DigitChars[d + 1] = c

\* the text of a sequence of digits
DigitsText(ds) == [i \in 1..Len(ds) |-> DigitChars[ds[i] + 1]]

RECURSIVE StripZeros(_)
\* a magnitude without its leading zeros (zero is <<0>>)
StripZeros(ds) ==
    IF Len(ds) > 1 /\ ds[1] = 0 THEN StripZeros(Tail(ds)) ELSE ds

\* a < b for two magnitudes without leading zeros
MagLess(a, b) ==
    \/ Len(a) < Len(b)
    \/ /\ Len(a) = Len(b)
       /\ \E i \in 1..Len(a) :
            /\ a[i] < b[i]
            /\ \A j \in 1..(i - 1) : a[j] = b[j]

MagLeq(a, b) == a = b \/ MagLess(a, b)

RECURSIVE MagSucc(_)
\* the magnitude plus one
MagSucc(ds) ==
    IF Len(ds) = 0 THEN <<1>>
    ELSE IF ds[Len(ds)] < 9
         THEN SubSeq(ds, 1, Len(ds) - 1) \o <<ds[Len(ds)] + 1>>
         ELSE MagSucc(SubSeq(ds, 1, Len(ds) - 1)) \o <<0>>

(***************************************************************************)
(* Limits of the integer widths                                            *)
(***************************************************************************)
MaxInt8 == <<1, 2, 7>>
MaxInt16 == <<3, 2, 7, 6, 7>>
MaxInt32 == <<2, 1, 4, 7, 4, 8, 3, 6, 4, 7>>
MaxInt64 == <<9, 2, 2, 3, 3, 7, 2, 0, 3, 6, 8, 5, 4, 7, 7, 5, 8, 0, 7>>
MaxUint8 == <<2, 5, 5>>
MaxUint16 == <<6, 5, 5, 3, 5>>
MaxUint32 == <<4, 2, 9, 4, 9, 6, 7, 2, 9, 5>>
MaxUint64 == <<1, 8, 4, 4, 6, 7, 4, 4, 0, 7, 3, 7, 0, 9, 5, 5, 1, 6, 1, 5>>

IntKinds == {"int", "int8", "int16", "int32", "int64"}
UintKinds == {"uint", "uint8", "uint16", "uint32", "uint64", "uintptr"}
FloatKinds == {"float32", "float64"}

\* largest value of a signed kind (int is 64 bits wide)
MaxIntOf(kind) ==
    CASE kind = "int8" -> MaxInt8
      [] kind = "int16" -> MaxInt16
      [] kind = "int32" -> MaxInt32
      [] OTHER -> MaxInt64

\* largest value of an unsigned kind (uint and uintptr are 64 bits wide)
MaxUintOf(kind) ==
    CASE kind = "uint8" -> MaxUint8
      [] kind = "uint16" -> MaxUint16
      [] kind = "uint32" -> MaxUint32
      [] OTHER -> MaxUint64

(***************************************************************************)
(* strconv                                                                 *)
(***************************************************************************)
IntVal(neg, mag) == [neg |-> neg, mag |-> mag]

ZeroInt == IntVal(FALSE, <<0>>)

RECURSIVE ParseUintLoop(_, _, _)
\* the digit loop of strconv.ParseUint: a character that is no digit is a
\* syntax error, a value above max a range error, whichever comes first
ParseUintLoop(s, acc, max) ==
    IF Len(s) = 0 THEN [err |-> "nil", mag |-> acc]
    ELSE IF ~IsDigit(s[1]) THEN [err |-> "ErrSyntax", mag |-> <<0>>]
    ELSE LET n1 == StripZeros(acc \o <<DigitVal(s[1])>>)
         IN  IF MagLess(max, n1) THEN [err |-> "ErrRange", mag |-> max]
             ELSE ParseUintLoop(Tail(s), n1, max)

\* strconv.ParseUint(s, 10, 64)
ParseUint(s) ==
    IF Len(s) = 0 THEN [err |-> "ErrSyntax", v |-> ZeroInt]
    ELSE LET r == ParseUintLoop(s, <<0>>, MaxUint64)
         IN  [err |-> r.err, v |-> IntVal(FALSE, r.mag)]

\* strconv.ParseInt(s, 10, 64)
ParseInt(s) ==
    IF Len(s) = 0 THEN [err |-> "ErrSyntax", v |-> ZeroInt]
    ELSE LET neg == s[1] = "-"
             body == IF s[1] \in {"+", "-"} THEN Tail(s) ELSE s
             un == ParseUint(body)
             cutoff == MagSucc(MaxInt64)
         IN  IF un.err = "ErrSyntax" THEN [err |-> "ErrSyntax", v |-> ZeroInt]
             ELSE IF ~neg /\ MagLeq(cutoff, un.v.mag)
                  THEN [err |-> "ErrRange", v |-> IntVal(FALSE, MaxInt64)]
             ELSE IF neg /\ MagLess(cutoff, un.v.mag)
                  THEN [err |-> "ErrRange", v |-> IntVal(TRUE, cutoff)]
             ELSE [err |-> "nil",
                   v |-> IntVal(neg /\ un.v.mag # <<0>>, un.v.mag)]

TrueTexts == {<<"1">>, <<"t">>, <<"T">>, <<"t", "r", "u", "e">>,
              <<"T", "R", "U", "E">>, <<"T", "r", "u", "e">>}

FalseTexts == {<<"0">>, <<"f">>, <<"F">>, <<"f", "a", "l", "s", "e">>,
               <<"F", "A", "L", "S", "E">>, <<"F", "a", "l", "s", "e">>}

\* strconv.ParseBool(s)
ParseBool(s) ==
    IF s \in TrueTexts THEN [err |-> "nil", v |-> TRUE]
    ELSE IF s \in FalseTexts THEN [err |-> "nil", v |-> FALSE]
    ELSE [err |-> "ErrSyntax", v |-> FALSE]

RECURSIVE CountDigits(_)
\* the number of digits at the start of a text
CountDigits(s) ==
    IF Len(s) > 0 /\ IsDigit(s[1]) THEN 1 + CountDigits(Tail(s)) ELSE 0

\* the text after its first n characters
Drop(s, n) == SubSeq(s, n + 1, Len(s))

\* the digits of the first n characters of a text
DigitsOf(s, n) == [i \in 1..n |-> DigitVal(s[i])]

RECURSIVE SmallNum(_, _)
\* the number written by a short sequence of digits, capped at 10000 as the
\* exponent of strconv's readFloat is
SmallNum(ds, acc) ==
    IF Len(ds) = 0 THEN acc
    ELSE SmallNum(Tail(ds), IF acc >= 10000 THEN acc ELSE acc * 10 + ds[1])

RECURSIVE StripTrailingZeros(_)
StripTrailingZeros(ds) ==
    IF Len(ds) > 0 /\ ds[Len(ds)] = 0
    THEN StripTrailingZeros(SubSeq(ds, 1, Len(ds) - 1))
    ELSE ds

RECURSIVE StripAllLeadingZeros(_)
StripAllLeadingZeros(ds) ==
    IF Len(ds) > 0 /\ ds[1] = 0 THEN StripAllLeadingZeros(Tail(ds)) ELSE ds

\* a float: finite values are 0.mant * 10^exp, mant without leading or
\* trailing zeros (empty for zero)
FloatVal(cls, neg, mant, exp) ==
    [cls |-> cls, neg |-> neg, mant |-> mant, exp |-> exp]

ZeroFloat == FloatVal("fin", FALSE, <<>>, 0)

\* |a| < |b| for two finite floats
FloatMagLess(a, b) ==
    IF Len(a.mant) = 0 THEN Len(b.mant) > 0
    ELSE IF Len(b.mant) = 0 THEN FALSE
    ELSE \/ a.exp < b.exp
         \/ /\ a.exp = b.exp
            /\ LET n == IF Len(a.mant) > Len(b.mant)
                        THEN Len(a.mant) ELSE Len(b.mant)
                   da(i) == IF i <= Len(a.mant) THEN a.mant[i] ELSE 0
                   db(i) == IF i <= Len(b.mant) THEN b.mant[i] ELSE 0
               IN  \E i \in 1..n :
                     /\ da(i) < db(i)
                     /\ \A j \in 1..(i - 1) : da(j) = db(j)

\* math.MaxFloat32 = 3.40282346638528859811704183484516925440e+38
MaxFloat32 ==
    FloatVal("fin", FALSE,
             <<3, 4, 0, 2, 8, 2, 3, 4, 6, 6, 3, 8, 5, 2, 8, 8, 5, 9, 8, 1,
               1, 7, 0, 4, 1, 8, 3, 4, 8, 4, 5, 1, 6, 9, 2, 5, 4, 4>>, 39)

\* the least magnitude that rounds to infinity in 64 bits:
\* 2^1024 - 2^970 = 1.797693134862315807937289714053e+308
Float64Overflow ==
    FloatVal("fin", FALSE,
             <<1, 7, 9, 7, 6, 9, 3, 1, 3, 4, 8, 6, 2, 3, 1, 5, 8, 0, 7, 9,
               3, 7, 2, 8, 9, 7, 1, 4, 0, 5, 3>>, 309)

InfTexts == {<<"I", "n", "f">>, <<"i", "n", "f">>, <<"+", "I", "n", "f">>,
             <<"-", "I", "n", "f">>}

NaNTexts == {<<"N", "a", "N">>, <<"n", "a", "n">>}

BadFloat == [ok |-> FALSE, v |-> ZeroFloat]

\* the float of the digits before and after the point and the exponent e,
\* if nothing follows the number
MakeFloat(neg, ip, fp, e, rest) ==
    IF Len(rest) > 0 THEN BadFloat
    ELSE [ok |-> TRUE,
          v |-> IF Len(StripAllLeadingZeros(ip \o fp)) = 0
                THEN FloatVal("fin", neg, <<>>, 0)
                ELSE FloatVal("fin", neg,
                              StripTrailingZeros(
                                  StripAllLeadingZeros(ip \o fp)),
                              Len(StripAllLeadingZeros(ip \o fp))
                                  - Len(fp) + e)]

\* the digits of the exponent
ReadExpDigits(neg, ip, fp, eneg, s, n) ==
    IF n = 0 THEN BadFloat
    ELSE MakeFloat(neg, ip, fp,
                   IF eneg THEN 0 - SmallNum(DigitsOf(s, n), 0)
                   ELSE SmallNum(DigitsOf(s, n), 0),
                   Drop(s, n))

\* the sign of the exponent
ReadExpSign(neg, ip, fp, s) ==
    IF Len(s) > 0 /\ s[1] \in {"+", "-"}
    THEN ReadExpDigits(neg, ip, fp, s[1] = "-", Tail(s),
                       CountDigits(Tail(s)))
    ELSE ReadExpDigits(neg, ip, fp, FALSE, s, CountDigits(s))

\* the exponent, if there is one; a number needs a digit
ReadExp(neg, ip, fp, s) ==
    IF Len(ip) + Len(fp) = 0 THEN BadFloat
    ELSE IF Len(s) > 0 /\ s[1] \in {"e", "E"}
    THEN ReadExpSign(neg, ip, fp, Tail(s))
    ELSE MakeFloat(neg, ip, fp, 0, s)

\* the digits after the point
ReadFraction(neg, ip, s, n) ==
    ReadExp(neg, ip, DigitsOf(s, n), Drop(s, n))

\* the point, if there is one
ReadPoint(neg, ip, s) ==
    IF Len(s) > 0 /\ s[1] = "."
    THEN ReadFraction(neg, ip, Tail(s), CountDigits(Tail(s)))
    ELSE ReadExp(neg, ip, <<>>, s)

\* the digits before the point
ReadMantissa(neg, s, n) == ReadPoint(neg, DigitsOf(s, n), Drop(s, n))

\* the decimal number of a text [sign] digits [. digits] [e [sign] digits]
ReadFloat(s) ==
    IF Len(s) > 0 /\ s[1] \in {"+", "-"}
    THEN ReadMantissa(s[1] = "-", Tail(s), CountDigits(Tail(s)))
    ELSE ReadMantissa(FALSE, s, CountDigits(s))

\* strconv.ParseFloat(s, 64)
ParseFloat(s) ==
    IF s \in InfTexts
    THEN [err |-> "nil", v |-> FloatVal("inf", s[1] = "-", <<>>, 0)]
    ELSE IF s \in NaNTexts
    THEN [err |-> "nil", v |-> FloatVal("nan", FALSE, <<>>, 0)]
    ELSE LET r == ReadFloat(s)
         IN  IF ~r.ok THEN [err |-> "ErrSyntax", v |-> ZeroFloat]
             ELSE IF ~FloatMagLess(r.v, Float64Overflow)
             THEN [err |-> "ErrRange", v |-> FloatVal("inf", r.v.neg, <<>>, 0)]
             ELSE [err |-> "nil", v |-> r.v]

(***************************************************************************)
(* time                                                                    *)
(***************************************************************************)
\* a layout is the sequence of the chunks time.Parse cuts it into
RFC3339 == <<"2006", "-", "01", "-", "02", "T", "15", ":", "04", ":", "05",
             "Z07:00">>

DateOnly == <<"2006", "-", "01", "-", "02">>

EmptyLayout == <<>>

TimeVal(y, mo, d, h, mi, s, off) ==
    [year |-> y, month |-> mo, day |-> d, hour |-> h, min |-> mi,
     sec |-> s, off |-> off]

\* the zero time.Time
ZeroTime == TimeVal(1, 1, 1, 0, 0, 0, 0)

\* the fields time.Parse starts from
ParseStartTime == TimeVal(0, 1, 1, 0, 0, 0, 0)

DaysIn(mo, y) ==
    IF mo = 2
    THEN IF y % 4 = 0 /\ (y % 100 # 0 \/ y % 400 = 0) THEN 29 ELSE 28
    ELSE IF mo \in {4, 6, 9, 11} THEN 30 ELSE 31

\* the number of the first n characters, or -1 when they are not n digits
GetNum(s, n) ==
    IF Len(s) >= n /\ \A i \in 1..n : IsDigit(s[i])
    THEN SmallNum(DigitsOf(s, n), 0)
    ELSE 0 - 1

RECURSIVE TimeParseLoop(_, _, _)
TimeParseLoop(layout, s, t) ==
    IF Len(layout) = 0
    THEN IF Len(s) > 0 THEN [ok |-> FALSE, v |-> ZeroTime]
         ELSE IF t.day > DaysIn(t.month, t.year)
              THEN [ok |-> FALSE, v |-> ZeroTime]
              ELSE [ok |-> TRUE, v |-> t]
    ELSE
      LET tok == layout[1]
          rest == Tail(layout)
          bad == [ok |-> FALSE, v |-> ZeroTime]
          n4 == GetNum(s, 4)
          n2 == GetNum(s, 2)
      IN  CASE tok = "2006" ->
                 IF n4 < 0 THEN bad
                 ELSE TimeParseLoop(rest, Drop(s, 4), [t EXCEPT !.year = n4])
            [] tok = "01" ->
                 IF n2 < 1 \/ n2 > 12 THEN bad
                 ELSE TimeParseLoop(rest, Drop(s, 2), [t EXCEPT !.month = n2])
            [] tok = "02" ->
                 IF n2 < 1 \/ n2 > 31 THEN bad
                 ELSE TimeParseLoop(rest, Drop(s, 2), [t EXCEPT !.day = n2])
            [] tok = "15" ->
                 IF n2 < 0 \/ n2 >= 24 THEN bad
                 ELSE TimeParseLoop(rest, Drop(s, 2), [t EXCEPT !.hour = n2])
            [] tok = "04" ->
                 IF n2 < 0 \/ n2 >= 60 THEN bad
                 ELSE TimeParseLoop(rest, Drop(s, 2), [t EXCEPT !.min = n2])
            [] tok = "05" ->
                 IF n2 < 0 \/ n2 >= 60 THEN bad
                 ELSE TimeParseLoop(rest, Drop(s, 2), [t EXCEPT !.sec = n2])
            [] tok = "Z07:00" ->
                 IF Len(s) > 0 /\ s[1] = "Z"
                 THEN TimeParseLoop(rest, Tail(s), [t EXCEPT !.off = 0])
                 ELSE IF /\ Len(s) >= 6
                         /\ s[1] \in {"+", "-"}
                         /\ s[4] = ":"
                         /\ GetNum(Drop(s, 1), 2) >= 0
                         /\ GetNum(Drop(s, 1), 2) < 24
                         /\ GetNum(Drop(s, 4), 2) >= 0
                         /\ GetNum(Drop(s, 4), 2) < 60
                 THEN LET m == GetNum(Drop(s, 1), 2) * 60
                                 + GetNum(Drop(s, 4), 2)
                      IN  TimeParseLoop(rest, Drop(s, 6),
                              [t EXCEPT !.off = IF s[1] = "-" THEN 0 - m
                                                ELSE m])
                 ELSE bad
            [] OTHER ->
                 IF Len(s) > 0 /\ s[1] = tok
                 THEN TimeParseLoop(rest, Tail(s), t)
                 ELSE bad

\* time.Parse(layout, value)
TimeParse(layout, s) ==
    LET r == TimeParseLoop(layout, s, ParseStartTime)
    IN  [err |-> IF r.ok THEN "nil" ELSE "ParseError", v |-> r.v]

(***************************************************************************)
(* Types and values (reflect)                                              *)
(***************************************************************************)
\* A type is its kind, the pointee of a pointer and the name of a structure.
Leaf(kind) == [k |-> kind, elem |-> <<>>, name |-> <<>>]

Ptr(t) == [k |-> "ptr", elem |-> <<t>>, name |-> <<>>]

Struct(name) == [k |-> "struct", elem |-> <<>>, name |-> name]

\* the type of an untyped nil handed to Parse: reflect.ValueOf(nil) is the
\* zero Value, of kind Invalid
InvalidType == Leaf("invalid")

\* const timeType
timeType == <<"time.Time">>

TimeType == Struct(timeType)

RECURSIVE PtrN(_, _)
\* t behind n pointers
PtrN(t, n) == IF n = 0 THEN t ELSE Ptr(PtrN(t, n - 1))

IsTime(t) == t.k = "struct" /\ t.name = timeType

\* the types the conversions tell apart; "map" stands for the kinds without
\* a conversion (map, slice, chan, ...)
LeafTypes ==
    {Leaf(kd) : kd \in IntKinds \cup UintKinds \cup FloatKinds
                        \cup {"string", "interface", "bool", "map"}}
        \cup {TimeType}

Field(tag, exported, type) ==
    [tag |-> tag, exported |-> exported, type |-> type]

\* the nested structure of the Outer targets
InnerFields ==
    <<Field("x", TRUE, Leaf("string")), Field("y", TRUE, Leaf("int64"))>>

\* The structures of the targets:
\*   <<"Single", t, d>>   one field of type t behind d pointers, key "k"
\*   <<"Quad", t>>        fields T, *T, **T, ... of the same key "k"
\*   <<"Inner">>          a text and a 64-bit integer
\*   <<"Outer", tag, d>>  a text, an Inner behind d pointers whose own tag
\*                        is tag, and a boolean
\*   <<"Hidden">>         an unexported field between two exported ones
\*   <<"Untagged", t, d>> one field of type t behind d pointers, no tag
\*   <<"Node">>           one field, a pointer to a Node, key "k"
StructFields(name) ==
    CASE name[1] = "Single" ->
           <<Field("k", TRUE, PtrN(name[2], name[3]))>>
      [] name[1] = "Quad" ->
           [i \in 1..(MaxPtrDepth + 1) |->
               Field("k", TRUE, PtrN(name[2], i - 1))]
      [] name[1] = "Inner" -> InnerFields
      [] name[1] = "Outer" ->
           <<Field("s", TRUE, Leaf("string")),
             Field(name[2], TRUE, PtrN(Struct(<<"Inner">>), name[3])),
             Field("b", TRUE, Leaf("bool"))>>
      [] name[1] = "Hidden" ->
           <<Field("s", TRUE, Leaf("string")),
             Field("x", FALSE, Leaf("string")),
             Field("b", TRUE, Leaf("bool"))>>
      [] name[1] = "Untagged" ->
           <<Field("", TRUE, PtrN(name[2], name[3]))>>
      [] name[1] = "Node" ->
           <<Field("k", TRUE, Ptr(Struct(<<"Node">>)))>>
      [] OTHER -> <<>>

RECURSIVE Zero(_)
\* reflect.Zero / reflect.New(t).Elem(): the zero value of a type.  A nil
\* pointer, a nil interface, a nil map and the empty text are all <<>>.
Zero(t) ==
    CASE t.k = "ptr" -> <<>>
      [] IsTime(t) -> ZeroTime
      [] t.k = "struct" ->
           [i \in 1..Len(StructFields(t.name)) |->
               Zero(StructFields(t.name)[i].type)]
      [] t.k \in IntKinds \cup UintKinds -> ZeroInt
      [] t.k \in FloatKinds -> ZeroFloat
      [] t.k = "bool" -> FALSE
      [] OTHER -> <<>>

OldText == <<"o", "l", "d">>

RECURSIVE Populated(_)
\* a value a caller may have left in the target before the call
Populated(t) ==
    CASE t.k = "ptr" -> <<Populated(t.elem[1])>>
      [] IsTime(t) -> TimeVal(2000, 1, 1, 0, 0, 0, 0)
      [] t.k = "struct" ->
           [i \in 1..Len(StructFields(t.name)) |->
               Populated(StructFields(t.name)[i].type)]
      [] t.k \in IntKinds \cup UintKinds -> IntVal(FALSE, <<7>>)
      [] t.k \in FloatKinds -> FloatVal("fin", FALSE, <<5>>, 0)
      [] t.k = "bool" -> TRUE
      [] t.k = "string" -> OldText
      [] t.k = "interface" -> <<OldText>>
      [] OTHER -> <<>>

RECURSIVE Get(_, _)
\* the value at a path of field indexes (1 through a pointer)
Get(v, path) == IF Len(path) = 0 THEN v ELSE Get(v[path[1]], Tail(path))

RECURSIVE Put(_, _, _)
\* the value with the value at a path replaced
Put(v, path, x) ==
    IF Len(path) = 0 THEN x
    ELSE [v EXCEPT ![path[1]] = Put(v[path[1]], Tail(path), x)]

\* a range check that takes every signed kind for the 64-bit one
OverflowIntM(kind, x) ==
    IF x.neg THEN MagLess(MagSucc(MaxInt64), x.mag)
    ELSE MagLess(MaxInt64, x.mag)

\* Value.OverflowInt(x): x does not fit the signed kind
OverflowInt(kind, x) ==
    IF x.neg THEN MagLess(MagSucc(MaxIntOf(kind)), x.mag)
    ELSE MagLess(MaxIntOf(kind), x.mag)

\* Value.OverflowUint(x): x does not fit the unsigned kind
OverflowUint(kind, x) == MagLess(MaxUintOf(kind), x.mag)

\* Value.OverflowFloat(x): MaxFloat32 < |x| <= MaxFloat64 for a float32,
\* never for a float64
OverflowFloat(kind, x) ==
    /\ kind = "float32"
    /\ x.cls = "fin"
    /\ FloatMagLess(MaxFloat32, x)

\* Value.Set(x) accepts x when its type is assignable to the destination's:
\* the same type, or any type into an empty interface; otherwise it panics
Assignable(src, dst) == dst = src \/ dst = "interface"

(***************************************************************************)
(* The conversions of the assignment engine                                *)
(***************************************************************************)
\* an emptiness test that never fires
IsEmptyM(value) == FALSE

\* value == "": the source value is empty
IsEmpty(value) == value = <<>>

\* the outcome of a conversion: the error, whether the destination is
\* written, the value written and whether a cell was allocated
Outcome(err, set, v, alloc) ==
    [err |-> err, set |-> set, v |-> v, alloc |-> alloc]

Untouched == Outcome("nil", FALSE, <<>>, FALSE)

Failed(err, alloc) == Outcome(err, FALSE, <<>>, alloc)

\* assignNonPointer on a destination that is no ordinary structure: the
\* temporal type, text and dynamic slot, the numbers, the boolean, and the
\* kinds without a conversion (the zero Value's kind Invalid among them)
AssignNonPointerLeaf(t, value, layout) ==
    CASE IsTime(t) ->
           IF IsEmpty(value) THEN Untouched
           ELSE LET r == TimeParse(layout, value)
                IN  IF r.err # "nil" THEN Failed(r.err, FALSE)
                    ELSE Outcome("nil", TRUE, r.v, FALSE)
      [] t.k \in {"interface", "string"} ->
           IF IsEmpty(value) THEN Untouched
           ELSE Outcome("nil", TRUE,
                        IF t.k = "interface" THEN <<value>> ELSE value, FALSE)
      [] t.k \in IntKinds ->
           IF IsEmpty(value) THEN Untouched
           ELSE LET r == ParseInt(value)
                IN  IF r.err # "nil" THEN Failed(r.err, FALSE)
                    ELSE IF OverflowInt(t.k, r.v)
                         THEN Failed("ErrOverflowSet", FALSE)
                         ELSE Outcome("nil", TRUE, r.v, FALSE)
      [] t.k \in UintKinds ->
           IF IsEmpty(value) THEN Untouched
           ELSE LET r == ParseUint(value)
                IN  IF r.err # "nil" THEN Failed(r.err, FALSE)
                    ELSE IF OverflowUint(t.k, r.v)
                         THEN Failed("ErrOverflowSet", FALSE)
                         ELSE Outcome("nil", TRUE, r.v, FALSE)
      [] t.k \in FloatKinds ->
           IF IsEmpty(value) THEN Untouched
           ELSE LET r == ParseFloat(value)
                IN  IF r.err # "nil" THEN Failed(r.err, FALSE)
                    ELSE IF OverflowFloat(t.k, r.v)
                         THEN Failed("ErrOverflowSet", FALSE)
                         ELSE Outcome("nil", TRUE, r.v, FALSE)
      [] t.k = "bool" ->
           IF IsEmpty(value) THEN Untouched
           ELSE LET r == ParseBool(value)
                IN  IF r.err # "nil" THEN Failed(r.err, FALSE)
                    ELSE Outcome("nil", TRUE, r.v, FALSE)
      [] OTHER -> Failed("ErrUnhandledKind", FALSE)

\* assignPointer on a pointer whose pointee is neither a pointer nor an
\* ordinary structure.  v is the pointer to store (tempVal).  The numbers
\* are parsed into an int64, uint64 or float64 and stored in the fresh cell
\* with Value.Set, which panics when the pointee's type is another one.
AssignPointerLeaf(t, value, layout) ==
    CASE IsTime(t) ->
           IF IsEmpty(value) THEN Untouched
           ELSE LET r == TimeParse(layout, value)
                IN  IF r.err # "nil" THEN Failed(r.err, FALSE)
                    ELSE Outcome("nil", TRUE, <<r.v>>, TRUE)
      [] t.k \in {"interface", "string"} ->
           IF IsEmpty(value) THEN Untouched
           ELSE IF ~Assignable("string", t.k) THEN Failed("panic", TRUE)
           ELSE Outcome("nil", TRUE,
                        IF t.k = "interface" THEN << <<value>> >>
                        ELSE <<value>>, TRUE)
      [] t.k \in IntKinds ->
           IF IsEmpty(value) THEN Untouched
           ELSE LET r == ParseInt(value)
                IN  IF r.err # "nil" THEN Failed(r.err, FALSE)
                    ELSE IF OverflowInt(t.k, r.v)
                         THEN Failed("ErrOverflowSet", TRUE)
                    ELSE IF ~Assignable("int64", t.k)
                         THEN Failed("panic", TRUE)
                    ELSE Outcome("nil", TRUE, <<r.v>>, TRUE)
      [] t.k \in UintKinds ->
           IF IsEmpty(value) THEN Untouched
           ELSE LET r == ParseUint(value)
                IN  IF r.err # "nil" THEN Failed(r.err, FALSE)
                    ELSE IF OverflowUint(t.k, r.v)
                         THEN Failed("ErrOverflowSet", TRUE)
                    ELSE IF ~Assignable("uint64", t.k)
                         THEN Failed("panic", TRUE)
                    ELSE Outcome("nil", TRUE, <<r.v>>, TRUE)
      [] t.k \in FloatKinds ->
           IF IsEmpty(value) THEN Untouched
           ELSE LET r == ParseFloat(value)
                IN  IF r.err # "nil" THEN Failed(r.err, FALSE)
                    ELSE IF OverflowFloat(t.k, r.v)
                         THEN Failed("ErrOverflowSet", TRUE)
                    ELSE IF ~Assignable("float64", t.k)
                         THEN Failed("panic", TRUE)
                    ELSE Outcome("nil", TRUE, <<r.v>>, TRUE)
      [] t.k = "bool" ->
           IF IsEmpty(value) THEN Untouched
           ELSE LET r == ParseBool(value)
                IN  IF r.err # "nil" THEN Failed(r.err, FALSE)
                    ELSE Outcome("nil", TRUE, <<r.v>>, TRUE)
      [] OTHER -> Failed("ErrUnhandledKind", FALSE)

(***************************************************************************)
(* The store and the inputs                                                *)
(***************************************************************************)
Keys == {"k", "s", "p", "x", "y", "b"}

\* what KV.Get answers for a key: a transport error, no entry and no error
\* (the key is absent), or an entry with its value
ErrEntry == [st |-> "err", value |-> <<>>]

NilEntry == [st |-> "nil", value |-> <<>>]

Entry(text) == [st |-> "ok", value |-> text]

Neg(ds) == <<"-">> \o DigitsText(ds)

HelloText == <<"h", "e", "l", "l", "o">>

TimeText == <<"2", "0", "1", "9", "-", "0", "2", "-", "0", "1", "T", "0", "0", ":", "0", "0", ":", "0", "0", "Z">>

\* the texts tried for a field of each type
TextsFor(t) ==
    CASE t.k \in IntKinds ->
           {<<>>, HelloText, <<"-", "1", "0">>, <<"+", "5">>,
            DigitsText(MaxIntOf(t.k)),
            DigitsText(MagSucc(MaxIntOf(t.k))),
            Neg(MagSucc(MaxIntOf(t.k))),
            Neg(MagSucc(MagSucc(MaxIntOf(t.k)))),
            DigitsText(MagSucc(MaxInt64))}
      [] t.k \in UintKinds ->
           {<<>>, HelloText, <<"1", "0", "0", "0">>, <<"-", "1">>,
            DigitsText(MaxUintOf(t.k)),
            DigitsText(MagSucc(MaxUintOf(t.k))),
            DigitsText(MagSucc(MaxUint64))}
      [] t.k \in FloatKinds ->
           {<<>>, HelloText, <<"1", "0", ".", "0">>, <<"3", ".", "4", "e", "3", "8">>,
            <<"3", ".", "5", "e", "3", "8">>, <<"-", "1", "e", "3", "9">>,
            <<"1", ".", "7", "e", "3", "0", "8">>, <<"2", "E", "+", "3", "0", "8">>,
            <<"-", "I", "n", "f">>}
      [] t.k = "bool" ->
           {<<>>, HelloText, <<"t", "r", "u", "e">>, <<"0">>}
      [] IsTime(t) ->
           {<<>>, HelloText, TimeText, <<"2", "0", "1", "9", "-", "0", "2", "-", "0", "1">>,
            <<"2", "0", "1", "9", "-", "0", "2", "-", "3", "0", "T", "0", "0", ":", "0", "0", ":", "0", "0", "+", "0", "7", ":", "0", "0">>}
      [] OTHER -> {<<>>, HelloText}

EntriesFor(t) == {ErrEntry, NilEntry} \cup {Entry(text) : text \in TextsFor(t)}

\* every key holds the empty value
EmptyStore == [key \in Keys |-> Entry(<<>>)]

OuterStores ==
    {[key \in Keys |->
        CASE key = "s" -> Entry(HelloText)
          [] key = "p" -> ep
          [] key = "x" -> ex
          [] key = "y" -> ey
          [] key = "b" -> eb
          [] OTHER -> Entry(<<>>)] :
        ep \in {ErrEntry, NilEntry, Entry(<<>>), Entry(HelloText)},
        ex \in {ErrEntry, Entry(<<>>), Entry(HelloText)},
        ey \in {NilEntry, Entry(<<"-", "1", "0">>),
                Entry(DigitsText(MagSucc(MaxInt64)))},
        eb \in {Entry(<<"t", "r", "u", "e">>), Entry(HelloText)}}

HiddenStores ==
    {[key \in Keys |->
        CASE key = "s" -> es
          [] key = "b" -> eb
          [] OTHER -> ErrEntry] :
        es \in {ErrEntry, Entry(HelloText)},
        eb \in {Entry(<<"t", "r", "u", "e">>), Entry(HelloText)}}

\* the stores tried for a target whose structure is name
StoresFor(name) ==
    CASE name[1] \in {"Single", "Quad"} ->
           {[EmptyStore EXCEPT !["k"] = e] : e \in EntriesFor(name[2])}
      [] name[1] = "Outer" -> OuterStores
      [] name[1] = "Hidden" -> HiddenStores
      [] name[1] = "Node" ->
           {[EmptyStore EXCEPT !["k"] = e] :
               e \in {Entry(<<>>), Entry(HelloText), ErrEntry}}
      [] OTHER -> {EmptyStore}

StructNames ==
    {<<"Single", t, d>> : t \in LeafTypes, d \in 0..MaxPtrDepth}
        \cup {<<"Quad", t>> : t \in LeafTypes}
        \cup {<<"Outer", tag, d>> : tag \in {"", "p"}, d \in 0..MaxPtrDepth}
        \cup {<<"Hidden">>}
        \cup {<<"Untagged", t, d>> : t \in LeafTypes, d \in 0..MaxPtrDepth}

Arg(type, val) == [type |-> type, val |-> val]

RECURSIVE Wrap(_, _)
\* v behind n pointers
Wrap(v, n) == IF n = 0 THEN v ELSE <<Wrap(v, n - 1)>>

\* the arguments handed to Parse: pointers to a structure (fresh or already
\* populated), pointers to pointers to one, a structure by value, an
\* untyped nil, a list node (alone or with a successor), pointers that are
\* nil at some level, and pointers to something that is no structure
Args ==
    {Arg(Ptr(Struct(n)), <<Zero(Struct(n))>>) : n \in StructNames}
        \cup {Arg(Ptr(Struct(n)), <<Populated(Struct(n))>>) :
                n \in StructNames}
        \cup {Arg(PtrN(Struct(n), d), Wrap(Zero(Struct(n)), d)) :
                n \in {<<"Single", Leaf("string"), 0>>, <<"Outer", "", 1>>},
                d \in 2..MaxPtrDepth}
        \cup {Arg(Struct(n), Zero(Struct(n))) :
                n \in {<<"Single", Leaf("string"), 0>>, <<"Outer", "p", 0>>}}
        \cup {Arg(InvalidType, <<>>)}
        \cup {Arg(Ptr(Struct(<<"Node">>)), v) :
                v \in {<<Zero(Struct(<<"Node">>))>>,
                       <<<<<<Zero(Struct(<<"Node">>))>>>>>>}}
        \cup {Arg(PtrN(Struct(<<"Single", Leaf("string"), 0>>), dj[1]),
                  Wrap(<<>>, dj[2])) :
                dj \in {x \in (1..MaxPtrDepth) \X (0..MaxPtrDepth) :
                           x[2] < x[1]}}
        \cup {Arg(PtrN(t, d), Wrap(Zero(t), d)) :
                t \in {Leaf("interface"), Leaf("int8"), Leaf("map"), TimeType},
                d \in 1..MaxPtrDepth}

RECURSIVE RootName(_)
\* the structure a target type ends in, <<"none">> if it ends in none
RootName(t) ==
    IF t.k = "ptr" THEN RootName(t.elem[1])
    ELSE IF t.k = "struct" /\ ~IsTime(t) THEN t.name ELSE <<"none">>

Layouts == {RFC3339, DateOnly, EmptyLayout}

(***************************************************************************)
(* State                                                                   *)
(***************************************************************************)
VARIABLES
    timeLayout,  \* var timeLayout, the process-wide layout
    kv,          \* what the store answers during the current call
    target,      \* the argument of Parse: its type and its value
    pre,         \* the value of the target when Parse was called
    stack,       \* the frames of parse and assignPointer, innermost last
    op,          \* the last operation called: "Parse" or "SetTimeLayout"
    result,      \* "idle", "running", what the operation returned, "panic",
                 \* "StackOverflow"
    lookups,     \* the keys sent to the store by the current call
    allocs,      \* the cells allocated by the current call
    writes,      \* the values the current call set in the target, in order
    last,        \* the assignments that returned in the last step
    par          \* the calls of Parse that run at the same time, when the
                 \* process runs two of them in two goroutines

vars == <<timeLayout, kv, target, pre, stack, op, result, lookups, allocs,
          writes, last, par>>

\* A frame of parse walks the fields of the structure at path in a cell;
\* a frame of assignPointer fills the pointer at path in a cell.  Cell 0 is
\* the target, cell i the tempVal of the i-th frame of the stack.
ParseFrame(cell, path, type, addr) ==
    [fn |-> "parse", cell |-> cell, path |-> path, type |-> type,
     addr |-> addr, index |-> 1, value |-> <<>>, tempVal |-> <<>>,
     phase |-> "loop", outer |-> FALSE, before |-> <<>>, allocs0 |-> 0]

\* outer: called from assign for a field (not from assignPointer itself);
\* before and allocs0: the field and the allocations at that moment
PointerFrame(cell, path, type, value, outer, before, allocs0) ==
    [fn |-> "assignPointer", cell |-> cell, path |-> path, type |-> type,
     addr |-> TRUE, index |-> 0, value |-> value, tempVal |-> <<>>,
     phase |-> "enter", outer |-> outer, before |-> before,
     allocs0 |-> allocs0]

\* what happened to the field at path of a cell: kind "assign" is a call of
\* assign that returned err, having found before and leaving after in the
\* field and allocated n cells; kind "lookup" is a getValue that failed
Event(kind, type, value, err, before, after, n, cell, path) ==
    [kind |-> kind, type |-> type, value |-> value, err |-> err,
     before |-> before, after |-> after, allocs |-> n, cell |-> cell,
     path |-> path]

\* the variables a step of Parse changes
Cur ==
    [target |-> target, stack |-> stack, result |-> result,
     lookups |-> lookups, allocs |-> allocs, writes |-> writes,
     last |-> last]

Read(c, cell, path) ==
    IF cell = 0 THEN Get(c.target.val, path)
    ELSE Get(c.stack[cell].tempVal, path)

\* Value.Set on the location path of a cell
Write(c, cell, path, v) ==
    IF cell = 0
    THEN [c EXCEPT !.target.val = Put(@, path, v),
                   !.writes = Append(@, [path |-> path, v |-> v])]
    ELSE [c EXCEPT !.stack[cell].tempVal = Put(@, path, v)]

SetTop(st, f) == [st EXCEPT ![Len(st)] = f]

Pop(st) == SubSeq(st, 1, Len(st) - 1)

\* the calls of assign on pointer fields that are on the stack, innermost
\* first, all returning err
Pending(c, err) ==
    LET n == Len(c.stack)
        rev == [i \in 1..n |-> c.stack[n + 1 - i]]
        outs == SelectSeq(rev, LAMBDA f : f.fn = "assignPointer" /\ f.outer)
    IN  [i \in 1..Len(outs) |->
            Event("assign", outs[i].type, outs[i].value, err, outs[i].before,
                  Read(c, outs[i].cell, outs[i].path),
                  c.allocs - outs[i].allocs0, outs[i].cell, outs[i].path)]

\* `if err != nil { return }` in every frame: the error (or the panic)
\* unwinds the whole stack without another write
Abort(c, err, evs) ==
    [c EXCEPT !.result = err, !.stack = <<>>,
              !.last = evs \o Pending(c, err)]

\* the innermost frame returns nil to its caller
Return(c) ==
    [c EXCEPT !.stack = Pop(@),
              !.result = IF Len(c.stack) = 1 THEN "nil" ELSE "running"]

(***************************************************************************)
(* Parser.getValue                                                         *)
(***************************************************************************)
\* a getValue that hands the empty tag to the store, which has no such key
getValueM(consulKey, store) ==
    IF consulKey = "" \/ store[consulKey].st = "err"
    THEN [err |-> "ErrLookup", value |-> <<>>, looked |-> TRUE]
    ELSE IF store[consulKey].st = "nil"
    THEN [err |-> "panic", value |-> <<>>, looked |-> TRUE]
    ELSE [err |-> "nil", value |-> store[consulKey].value, looked |-> TRUE]

\* err is "ErrLookup" for the error of KV.Get; an absent entry (pair is nil)
\* makes pair.Value dereference nil, a run-time panic
getValue(consulKey, store) ==
    IF consulKey = ""
    THEN [err |-> "nil", value |-> <<>>, looked |-> FALSE]
    ELSE IF store[consulKey].st = "err"
    THEN [err |-> "ErrLookup", value |-> <<>>, looked |-> TRUE]
    ELSE IF store[consulKey].st = "nil"
    THEN [err |-> "panic", value |-> <<>>, looked |-> TRUE]
    ELSE [err |-> "nil", value |-> store[consulKey].value, looked |-> TRUE]

(***************************************************************************)
(* Parser.Parse                                                            *)
(***************************************************************************)
\* a guard that tests the validity of the target only
InvalidTargetM(t) == t.k = "invalid"

\* valueStruct.Kind() != reflect.Ptr || !valueStruct.IsValid()
InvalidTarget(t) == t.k # "ptr" \/ t.k = "invalid"

\* an unwinding that stops after the first pointer
getRecursivePointerValM(t, v, path) ==
    IF t.k = "ptr"
    THEN IF v = <<>>
         THEN [type |-> InvalidType, path |-> path, addr |-> FALSE]
         ELSE [type |-> t.elem[1], path |-> path \o <<1>>, addr |-> TRUE]
    ELSE [type |-> t, path |-> path, addr |-> Len(path) > 0]

RECURSIVE getRecursivePointerVal(_, _, _)
\* the first referent that is no pointer: its type, its path in the target
\* and whether it is addressable.  Elem() of a nil pointer is the zero
\* Value, of kind Invalid.
getRecursivePointerVal(t, v, path) ==
    IF t.k = "ptr"
    THEN IF v = <<>>
         THEN [type |-> InvalidType, path |-> path, addr |-> FALSE]
         ELSE getRecursivePointerVal(t.elem[1], v[1], path \o <<1>>)
    ELSE [type |-> t, path |-> path, addr |-> Len(path) > 0]

\* the variables of a call when Parse is entered
NewCall(a) ==
    [target |-> a, stack |-> <<>>, result |-> "running", lookups |-> <<>>,
     allocs |-> 0, writes |-> <<>>, last |-> <<>>]

\* an entry that hands assign a text instead of the empty value
assignTargetM(c, r, layout) ==
    IF r.type.k = "struct" /\ ~IsTime(r.type)
    THEN [c EXCEPT !.stack = <<ParseFrame(0, r.path, r.type, r.addr)>>]
    ELSE [c EXCEPT !.result = AssignNonPointerLeaf(r.type, HelloText, layout).err]

\* parser.assign(r, "") on the referent r of the target: parse on an
\* ordinary structure, else assignNonPointer with the empty value
assignTarget(c, r, layout) ==
    IF r.type.k = "struct" /\ ~IsTime(r.type)
    THEN [c EXCEPT !.stack = <<ParseFrame(0, r.path, r.type, r.addr)>>]
    ELSE [c EXCEPT !.result = AssignNonPointerLeaf(r.type, <<>>, layout).err]

\* Parse up to its first call of parse, or to its return
ParseEntry(a, layout) ==
    IF InvalidTarget(a.type)
    THEN [NewCall(a) EXCEPT !.result = "ErrNonPointerType"]
    ELSE assignTarget(NewCall(a),
                      getRecursivePointerVal(a.type, a.val, <<>>), layout)

Idle == result # "running"

\* the variables of a call take the values of c
Becomes(c) ==
    /\ target' = c.target
    /\ stack' = c.stack
    /\ result' = c.result
    /\ lookups' = c.lookups
    /\ allocs' = c.allocs
    /\ writes' = c.writes
    /\ last' = c.last

\* The variables other than timeLayout describe the call in progress or
\* just over, and every call starts by clearing them.  A Parse that follows
\* a Parse would start from the same timeLayout, the only state a call
\* inherits, and reach the states the first one reaches: a Parse starts at
\* rest or after a SetTimeLayout.
Parse(a, store) ==
    /\ Idle
    /\ op # "Parse"
    /\ Becomes(ParseEntry(a, timeLayout))
    /\ pre' = a.val
    /\ kv' = store
    /\ op' = "Parse"
    /\ UNCHANGED <<timeLayout, par>>

Top == stack[Len(stack)]

(***************************************************************************)
(* Parser.parse, Parser.assign, Parser.assignNonPointer                    *)
(***************************************************************************)
\* a loop that steps over a field
AdvanceM(f) == [f EXCEPT !.index = @ + 2]

\* the loop of parse goes on with the next field
Advance(f) == [f EXCEPT !.index = @ + 1]

\* the field was assigned: the loop goes on
assigned(c, f, fd, path, value, cur) ==
    [c EXCEPT !.stack = SetTop(@, Advance(f)),
              !.last = <<Event("assign", fd.type, value, "nil", cur,
                               Read(c, f.cell, path), 0, f.cell, path)>>]

\* an assignNonPointer that tests for the empty value before the kind
assignNonPointerM(c, f, fd, path, value, cur, o) ==
    IF value = <<>> THEN assigned(c, f, fd, path, value, cur)
    ELSE IF o.err # "nil"
    THEN Abort(c, o.err,
               <<Event("assign", fd.type, value, o.err, cur, cur, 0, f.cell,
                       path)>>)
    ELSE IF o.set
    THEN assigned(Write(c, f.cell, path, o.v), f, fd, path, value, cur)
    ELSE assigned(c, f, fd, path, value, cur)

\* assignNonPointer on a field that is no ordinary structure, with the
\* outcome o of its conversion: the error aborts, else the value is set
assignNonPointer(c, f, fd, path, value, cur, o) ==
    IF o.err # "nil"
    THEN Abort(c, o.err,
               <<Event("assign", fd.type, value, o.err, cur, cur, 0, f.cell,
                       path)>>)
    ELSE IF o.set
    THEN assigned(Write(c, f.cell, path, o.v), f, fd, path, value, cur)
    ELSE assigned(c, f, fd, path, value, cur)

\* assign on the field at path with the value resolved for it: a frame of
\* assignPointer for a pointer, a frame of parse for an ordinary structure,
\* else the conversion
assign(c, f, fd, path, value, layout) ==
    IF fd.type.k = "ptr"
    THEN [c EXCEPT !.stack =
             Append(SetTop(@, Advance(f)),
                    PointerFrame(f.cell, path, fd.type, value, TRUE,
                                 Read(c, f.cell, path), c.allocs))]
    ELSE IF fd.type.k = "struct" /\ ~IsTime(fd.type)
    THEN [c EXCEPT !.stack =
             Append(SetTop(@, Advance(f)),
                    ParseFrame(f.cell, path, fd.type, f.addr))]
    ELSE assignNonPointer(c, f, fd, path, value, Read(c, f.cell, path),
                          AssignNonPointerLeaf(fd.type, value, layout))

\* the field after getValue answered g: its error aborts
resolved(c, f, fd, path, g, layout) ==
    IF g.err # "nil"
    THEN Abort([c EXCEPT !.lookups =
                   IF g.looked THEN Append(@, fd.tag) ELSE @],
               g.err,
               <<Event("lookup", fd.type, <<>>, g.err,
                       Read(c, f.cell, path), Read(c, f.cell, path), 0,
                       f.cell, path)>>)
    ELSE assign([c EXCEPT !.lookups =
                    IF g.looked THEN Append(@, fd.tag) ELSE @],
                f, fd, path, g.value, layout)

\* a loop of parse without the test of CanSet
parseStepM(c, f, fd, store, layout) ==
    resolved(c, f, fd, f.path \o <<f.index>>, getValue(fd.tag, store), layout)

\* the field fd of the frame f: skipped unless it can be set
parseStep(c, f, fd, store, layout) ==
    IF ~(fd.exported /\ f.addr)
    THEN [c EXCEPT !.stack = SetTop(@, Advance(f))]
    ELSE resolved(c, f, fd, f.path \o <<f.index>>, getValue(fd.tag, store),
                  layout)

\* one turn of the loop of parse: CanSet, getValue, assign
parseField(c, store, layout) ==
    parseStep(c, c.stack[Len(c.stack)],
              StructFields(c.stack[Len(c.stack)].type.name)
                  [c.stack[Len(c.stack)].index],
              store, layout)

ParseField ==
    /\ stack # <<>>
    /\ Top.fn = "parse"
    /\ Top.index <= Len(StructFields(Top.type.name))
    /\ Becomes(parseField(Cur, kv, timeLayout))
    /\ UNCHANGED <<timeLayout, kv, pre, op, par>>

\* the loop of parse is over: parse returns nil
ParseReturn ==
    /\ stack # <<>>
    /\ Top.fn = "parse"
    /\ Top.index > Len(StructFields(Top.type.name))
    /\ Becomes(Return(Cur))
    /\ UNCHANGED <<timeLayout, kv, pre, op, par>>

(***************************************************************************)
(* Parser.assignPointer                                                    *)
(***************************************************************************)
\* the call of assign that the frame f stands for returned nil
Returned(c, f) ==
    <<Event("assign", f.type, f.value, "nil", f.before,
            Read(c, f.cell, f.path),
            c.allocs - f.allocs0, f.cell, f.path)>>

\* assignPointer returns nil
ReturnPointer(c, f) ==
    IF f.outer
    THEN [Return(c) EXCEPT !.last = Returned(c, f)]
    ELSE Return(c)

\* an assignPointer that stores the fresh cell before it tests the error
assignPointerLeafM(c, f, o) ==
    IF o.err # "nil"
    THEN Abort(Write(c, f.cell, f.path, <<Zero(f.type.elem[1])>>), o.err,
               <<>>)
    ELSE IF ~o.set THEN ReturnPointer(c, f)
    ELSE ReturnPointer(Write(c, f.cell, f.path, o.v), f)

\* assignPointer on a pointee that is neither a pointer nor an ordinary
\* structure, with the outcome o of its conversion; val.Set(tempVal) at the
\* end
assignPointerLeaf(c, f, o) ==
    IF o.err # "nil" THEN Abort(c, o.err, <<>>)
    ELSE IF ~o.set THEN ReturnPointer(c, f)
    ELSE ReturnPointer(Write(c, f.cell, f.path, o.v), f)

\* the calls of parse in progress
Nesting(st) == Len(SelectSeq(st, LAMBDA f : f.fn = "parse"))

\* the stack of the goroutine is exhausted: the runtime ends the process
\* with a fatal error, nothing returns
Exhausted(c) ==
    [c EXCEPT !.result = "StackOverflow", !.stack = <<>>, !.last = <<>>]

\* the frame of assignPointer after reflect.New(val.Type().Elem())
Allocated(f, elem) ==
    [f EXCEPT !.tempVal = <<Zero(elem)>>, !.phase = "set"]

\* assignPointer from its entry to the recursion into the pointee elem (a
\* pointer or an ordinary structure), or to its return
assignPointerAt(c, f, elem, layout) ==
    IF elem.k = "ptr"
    THEN [c EXCEPT !.allocs = @ + 1,
                   !.stack =
                     Append(SetTop(@, Allocated(f, elem)),
                            PointerFrame(Len(c.stack), <<1>>, elem, f.value,
                                         FALSE, <<>>, c.allocs + 1))]
    ELSE IF elem.k = "struct" /\ ~IsTime(elem)
    THEN IF Nesting(c.stack) >= MaxNesting THEN Exhausted(c)
         ELSE [c EXCEPT !.allocs = @ + 1,
                        !.stack =
                          Append(SetTop(@, Allocated(f, elem)),
                                 ParseFrame(Len(c.stack), <<1>>, elem, TRUE))]
    ELSE assignPointerLeaf(
             [c EXCEPT !.allocs =
                 IF AssignPointerLeaf(elem, f.value, layout).alloc
                 THEN @ + 1 ELSE @],
             f, AssignPointerLeaf(elem, f.value, layout))

assignPointer(c, layout) ==
    assignPointerAt(c, c.stack[Len(c.stack)],
                    c.stack[Len(c.stack)].type.elem[1], layout)

AssignPointer ==
    /\ stack # <<>>
    /\ Top.fn = "assignPointer"
    /\ Top.phase = "enter"
    /\ Becomes(assignPointer(Cur, timeLayout))
    /\ UNCHANGED <<timeLayout, kv, pre, op, par>>

\* val.Set(tempVal) after the recursion into the pointee returned nil
assignPointerSet(c, f) ==
    ReturnPointer(Write(c, f.cell, f.path, f.tempVal), f)

AssignPointerSet ==
    /\ stack # <<>>
    /\ Top.fn = "assignPointer"
    /\ Top.phase = "set"
    /\ Becomes(assignPointerSet(Cur, Top))
    /\ UNCHANGED <<timeLayout, kv, pre, op, par>>

(***************************************************************************)
(* A call of Parse from its entry to its return                            *)
(***************************************************************************)
\* the step the innermost frame f takes
step(c, f, store, layout) ==
    IF f.fn = "parse"
    THEN IF f.index <= Len(StructFields(f.type.name))
         THEN parseField(c, store, layout)
         ELSE Return(c)
    ELSE IF f.phase = "enter" THEN assignPointer(c, layout)
    ELSE assignPointerSet(c, f)

RECURSIVE run(_, _, _)
\* the call c carried on until its stack is empty
run(c, store, layout) ==
    IF c.stack = <<>> THEN c
    ELSE run(step(c, c.stack[Len(c.stack)], store, layout), store, layout)

\* Parse(a) against a store under a layout, as one function
ParseCall(a, store, layout) == run(ParseEntry(a, layout), store, layout)

(***************************************************************************)
(* Parser.SetTimeLayout                                                    *)
(***************************************************************************)
\* a setter that answers nil and does not store the layout
SetTimeLayoutK(layout) ==
    /\ Idle
    /\ op' = "SetTimeLayout"
    /\ result' = IF layout = EmptyLayout THEN "ErrEmptyLayout" ELSE "nil"
    /\ kv' = EmptyStore
    /\ target' = Arg(InvalidType, <<>>)
    /\ pre' = <<>>
    /\ lookups' = <<>>
    /\ allocs' = 0
    /\ writes' = <<>>
    /\ last' = <<>>
    /\ UNCHANGED <<stack, timeLayout, par>>

\* a setter without the test of the empty layout
SetTimeLayoutM(layout) ==
    /\ Idle
    /\ op' = "SetTimeLayout"
    /\ result' = "nil"
    /\ timeLayout' = layout
    /\ kv' = EmptyStore
    /\ target' = Arg(InvalidType, <<>>)
    /\ pre' = <<>>
    /\ lookups' = <<>>
    /\ allocs' = 0
    /\ writes' = <<>>
    /\ last' = <<>>
    /\ UNCHANGED <<stack, par>>

SetTimeLayout(layout) ==
    /\ Idle
    /\ op' = "SetTimeLayout"
    /\ IF layout = EmptyLayout
       THEN /\ result' = "ErrEmptyLayout"
            /\ UNCHANGED timeLayout
       ELSE /\ result' = "nil"
            /\ timeLayout' = layout
    /\ kv' = EmptyStore
    /\ target' = Arg(InvalidType, <<>>)
    /\ pre' = <<>>
    /\ lookups' = <<>>
    /\ allocs' = 0
    /\ writes' = <<>>
    /\ last' = <<>>
    /\ UNCHANGED <<stack, par>>

(***************************************************************************)
(* Specification                                                           *)
(***************************************************************************)
\* no calls run at the same time
NoPar == [calls |-> <<>>, args |-> <<>>, dead |-> FALSE]

Init ==
    /\ timeLayout = RFC3339
    /\ kv = EmptyStore
    /\ target = Arg(InvalidType, <<>>)
    /\ pre = <<>>
    /\ stack = <<>>
    /\ op = "none"
    /\ result = "idle"
    /\ lookups = <<>>
    /\ allocs = 0
    /\ writes = <<>>
    /\ last = <<>>
    /\ par = NoPar

Next ==
    \/ \E a \in Args : \E store \in StoresFor(RootName(a.type)) :
          Parse(a, store)
    \/ ParseField
    \/ ParseReturn
    \/ AssignPointer
    \/ AssignPointerSet
    \/ \E layout \in Layouts : SetTimeLayout(layout)

Spec == Init /\ [][Next]_vars

(***************************************************************************)
(* Two calls of Parse at the same time                                     *)
(*                                                                         *)
(* Two goroutines call Parse on two targets that share no memory; nobody   *)
(* calls SetTimeLayout meanwhile.  The calls share the store, which they   *)
(* only ask, and timeLayout, which they only read; a step of a call is a   *)
(* turn of the loop of parse or a step of assignPointer, as above.  Parse  *)
(* has no recover: a panic in a goroutine ends the process unless the      *)
(* caller of Parse recovers from it, and an exhausted stack always ends    *)
(* it.                                                                     *)
(***************************************************************************)
\* the targets of the two calls
ParArgs ==
    {Arg(Ptr(Struct(n)), <<Zero(Struct(n))>>) :
        n \in {<<"Single", TimeType, 1>>, <<"Single", Leaf("int8"), 1>>,
               <<"Outer", "p", 1>>, <<"Node">>}}
        \cup {Arg(Ptr(Struct(<<"Hidden">>)),
                  <<Populated(Struct(<<"Hidden">>))>>)}

\* the stores the two calls ask
ParStores ==
    {[key \in Keys |->
        CASE key = "k" -> ek
          [] key = "y" -> ey
          [] key = "b" -> Entry(<<"t", "r", "u", "e">>)
          [] OTHER -> Entry(HelloText)] :
        ek \in {ErrEntry, NilEntry, Entry(TimeText), Entry(<<"5">>),
                Entry(<<"2", "0", "1", "9", "-", "0", "2", "-", "0", "1">>)},
        ey \in {Entry(<<"-", "1", "0">>),
                Entry(DigitsText(MagSucc(MaxInt64)))}}

\* both calls have entered Parse
InitPar ==
    /\ timeLayout \in Layouts \ {EmptyLayout}
    /\ kv \in ParStores
    /\ \E a \in ParArgs, b \in ParArgs :
          par = [calls |-> <<ParseEntry(a, timeLayout),
                             ParseEntry(b, timeLayout)>>,
                 args |-> <<a, b>>,
                 dead |-> FALSE]
    /\ target = Arg(InvalidType, <<>>)
    /\ pre = <<>>
    /\ stack = <<>>
    /\ op = "none"
    /\ result = "idle"
    /\ lookups = <<>>
    /\ allocs = 0
    /\ writes = <<>>
    /\ last = <<>>

\* the call i can take a step
Runs(i) == ~par.dead /\ par.calls[i].stack # <<>>

\* the call i after its next step
Stepped(i) ==
    step(par.calls[i], par.calls[i].stack[Len(par.calls[i].stack)], kv,
         timeLayout)

\* the outcomes that are no return of Parse
Crashes == {"panic", "StackOverflow"}

\* a step of the call i that neither panics nor exhausts the stack
ParStep(i) ==
    /\ Runs(i)
    /\ Stepped(i).result \notin Crashes
    /\ par' = [par EXCEPT !.calls[i] = Stepped(i)]
    /\ UNCHANGED <<timeLayout, kv, target, pre, stack, op, result, lookups,
                   allocs, writes, last>>

\* a step of the call i that panics, in a goroutine whose caller recovers
ParRecover(i) ==
    /\ Runs(i)
    /\ Stepped(i).result = "panic"
    /\ par' = [par EXCEPT !.calls[i] = Stepped(i)]
    /\ UNCHANGED <<timeLayout, kv, target, pre, stack, op, result, lookups,
                   allocs, writes, last>>

\* a step of the call i that panics without a recover, or exhausts the
\* stack: the process ends, and the other call with it
ParCrash(i) ==
    /\ Runs(i)
    /\ Stepped(i).result \in Crashes
    /\ par' = [par EXCEPT !.calls[i] = Stepped(i), !.dead = TRUE]
    /\ UNCHANGED <<timeLayout, kv, target, pre, stack, op, result, lookups,
                   allocs, writes, last>>

NextPar ==
    \/ \E i \in 1..2 : ParStep(i)
    \/ \E i \in 1..2 : ParRecover(i)
    \/ \E i \in 1..2 : ParCrash(i)

SpecPar == InitPar /\ [][NextPar]_vars

(***************************************************************************)
(* Vocabulary of the properties                                            *)
(***************************************************************************)
\* a call of Parse is over
Done == op = "Parse" /\ result \notin {"idle", "running"}

\* the errors Parse can return
ReturnedErrors ==
    {"ErrNonPointerType", "ErrUnhandledKind", "ErrOverflowSet", "ErrSyntax",
     "ErrRange", "ParseError", "ErrLookup"}

RECURSIVE LeafOf(_)
\* the type behind the pointers of a type
LeafOf(t) == IF t.k = "ptr" THEN LeafOf(t.elem[1]) ELSE t

RECURSIVE DepthOf(_)
\* the number of pointers around a type
DepthOf(t) == IF t.k = "ptr" THEN 1 + DepthOf(t.elem[1]) ELSE 0

NumericKinds == IntKinds \cup UintKinds \cup FloatKinds

\* the text without its sign
Unsigned(s) == IF Len(s) > 0 /\ s[1] \in {"+", "-"} THEN Tail(s) ELSE s

\* a decimal integer: an optional sign and at least one digit
IsIntText(s) ==
    /\ Len(Unsigned(s)) > 0
    /\ \A i \in 1..Len(Unsigned(s)) : IsDigit(Unsigned(s)[i])

\* the integer a decimal integer text writes
IntOf(s) ==
    IntVal(s[1] = "-"
               /\ StripZeros(DigitsOf(Unsigned(s), Len(Unsigned(s)))) # <<0>>,
           StripZeros(DigitsOf(Unsigned(s), Len(Unsigned(s)))))

\* an integer lies in the range of an integer kind
IntInRange(kind, v) ==
    IF kind \in UintKinds THEN ~v.neg /\ MagLeq(v.mag, MaxUintOf(kind))
    ELSE IF v.neg THEN MagLeq(v.mag, MagSucc(MaxIntOf(kind)))
    ELSE MagLeq(v.mag, MaxIntOf(kind))

\* a decimal number lies in the range of a float kind
FloatInRange(kind, v) ==
    IF kind = "float32" THEN ~FloatMagLess(MaxFloat32, v)
    ELSE FloatMagLess(v, Float64Overflow)

\* the text writes a number
IsNumber(kind, s) ==
    IF kind \in FloatKinds THEN ReadFloat(s).ok ELSE IsIntText(s)

\* the text writes a number inside the range of the kind
InRange(kind, s) ==
    /\ IsNumber(kind, s)
    /\ IF kind \in FloatKinds THEN FloatInRange(kind, ReadFloat(s).v)
       ELSE IntInRange(kind, IntOf(s))

\* the text writes a number outside the range of the kind
OutOfRange(kind, s) == IsNumber(kind, s) /\ ~InRange(kind, s)

\* the widest kind of the family of a numeric kind
Widest(kind) ==
    IF kind \in IntKinds THEN "int64"
    ELSE IF kind \in UintKinds THEN "uint64" ELSE "float64"

\* the text can be bound to a field of the leaf type t under the layout
Compatible(t, s, layout) ==
    /\ s # <<>>
    /\ CASE t.k \in IntKinds -> InRange(t.k, s)
         [] t.k \in UintKinds -> InRange(t.k, s) /\ s[1] \notin {"+", "-"}
         [] t.k \in FloatKinds -> InRange(t.k, s)
         [] t.k = "bool" -> s \in TrueTexts \cup FalseTexts
         [] t.k \in {"string", "interface"} -> TRUE
         [] IsTime(t) -> TimeParse(layout, s).err = "nil"
         [] OTHER -> FALSE

\* the events of the last step that are calls of assign
Assigns == {i \in 1..Len(last) : last[i].kind = "assign"}

\* the target is a pointer to a structure of the family fam
TargetIs(fam) ==
    /\ op = "Parse"
    /\ target.type.k = "ptr"
    /\ target.type.elem[1].k = "struct"
    /\ target.type.elem[1].name[1] = fam

TargetName == target.type.elem[1].name

(***************************************************************************)
(* C1                                                                      *)
(***************************************************************************)
\* the call was aborted by a lookup or a conversion that failed (a panic of
\* Value.Set is no failed conversion)
Aborted ==
    /\ Done
    /\ Len(last) > 0
    /\ last[1].err # "nil"
    /\ ~(last[1].kind = "assign" /\ last[1].err = "panic")

\* the place in the target of the field of the target's structure, or of a
\* structure nested in it without a pointer, whose assignment failed
FailPath == last[Len(last)].path

\* the fields declared after the failing one, in its structure and in the
\* structures around it, hold what they held when Parse was called
LaterFieldsKept ==
    \A n \in 1..Len(FailPath) :
        \A j \in (FailPath[n] + 1)..Len(Get(pre, SubSeq(FailPath, 1, n - 1))) :
            Get(target.val, SubSeq(FailPath, 1, n - 1) \o <<j>>)
                = Get(pre, SubSeq(FailPath, 1, n - 1) \o <<j>>)

\* every value set in the target is still there
WritesKept ==
    \A i \in 1..Len(writes) : Get(target.val, writes[i].path) = writes[i].v

\* C1: the first field whose lookup or conversion fails aborts the call
\* with that error (Parse returns it); the fields bound before it keep the
\* value written, the failing field and the fields after it keep the value
\* they had before the call.
C1_FirstFailureAborts ==
    Aborted =>
        /\ result \in ReturnedErrors
        /\ result = last[1].err
        /\ last[Len(last)].cell = 0
        /\ Get(target.val, FailPath) = Get(pre, FailPath)
        /\ LaterFieldsKept
        /\ WritesKept

(***************************************************************************)
(* C2                                                                      *)
(***************************************************************************)
\* the last lookup of the call did not find an entry
LookupFailed ==
    /\ Done
    /\ Len(lookups) > 0
    /\ kv[lookups[Len(lookups)]].st \in {"err", "nil"}

\* C2: for a field with a non-empty key every lookup failure, an absent key
\* (a nil entry and no error) included, ends the call with an error that
\* Parse returns.
C2_LookupFailureIsError == LookupFailed => result \in ReturnedErrors

(***************************************************************************)
(* C3                                                                      *)
(***************************************************************************)
\* the call of assign last[i] had a numeric destination, direct or behind
\* pointers, and a text whose number is outside the destination's range
OverflowCase(i) ==
    /\ last[i].kind = "assign"
    /\ LeafOf(last[i].type).k \in NumericKinds
    /\ OutOfRange(LeafOf(last[i].type).k, last[i].value)

\* the text is one strconv parses as a 64-bit number of the kind's family
Parses64(kind, s) ==
    /\ InRange(Widest(kind), s)
    /\ kind \in UintKinds => s[1] \notin {"+", "-"}

\* C3 as stated: a numeric text outside the range of a signed, unsigned or
\* float destination (direct or behind a pointer) makes the assignment
\* return ErrOverflowSet and leaves the field as it was.
C3_OverflowIsErrOverflowSet ==
    \A i \in 1..Len(last) :
        OverflowCase(i) =>
            /\ last[i].err = "ErrOverflowSet"
            /\ last[i].after = last[i].before

\* C3 amended: such a text makes the assignment return an error and leaves
\* the field as it was; the error is ErrOverflowSet when strconv parses the
\* text as a 64-bit number, else the error of strconv: ErrSyntax for a
\* signed text into an unsigned destination, ErrRange otherwise.
C3_OverflowIsAnError ==
    \A i \in 1..Len(last) :
        OverflowCase(i) =>
            /\ last[i].after = last[i].before
            /\ last[i].err =
                 IF Parses64(LeafOf(last[i].type).k, last[i].value)
                 THEN "ErrOverflowSet"
                 ELSE IF /\ LeafOf(last[i].type).k \in UintKinds
                         /\ last[i].value[1] \in {"+", "-"}
                 THEN "ErrSyntax"
                 ELSE "ErrRange"

\* an 8-bit field behind a pointer refused a text that fits 64 bits, and the
\* pointer is still the one the caller left there
C3_Witness ==
    \E i \in 1..Len(last) :
        /\ OverflowCase(i)
        /\ last[i].type = Ptr(Leaf("int8"))
        /\ last[i].err = "ErrOverflowSet"
        /\ last[i].before = <<IntVal(FALSE, <<7>>)>>
        /\ Get(target.val, last[i].path) = last[i].before

(***************************************************************************)
(* C4                                                                      *)
(***************************************************************************)
\* the leaf types with a conversion
SupportedLeaves == LeafTypes \ {Leaf("map")}

\* C4: assigning the empty value to a pointer destination (a pointee with a
\* conversion, any number of pointers) returns no error, allocates nothing
\* and leaves the field as it was, nil in a fresh target.
C4_EmptyLeavesPointerNil ==
    \A i \in 1..Len(last) :
        ( /\ last[i].kind = "assign"
          /\ last[i].type.k = "ptr"
          /\ LeafOf(last[i].type) \in SupportedLeaves
          /\ last[i].value = <<>> ) =>
            /\ last[i].err = "nil"
            /\ last[i].allocs = 0
            /\ last[i].after = last[i].before

(***************************************************************************)
(* C5                                                                      *)
(***************************************************************************)
\* the call of assign last[i] had a numeric destination that is no pointer
\* and the empty value
EmptyNumberCase(i) ==
    /\ last[i].kind = "assign"
    /\ last[i].type.k \in NumericKinds
    /\ last[i].value = <<>>

\* C5: assigning the empty value to a signed, unsigned or float destination
\* that is no pointer returns no error and leaves the field as it was, the
\* zero value in a fresh target.
C5_EmptyLeavesNumber ==
    \A i \in 1..Len(last) :
        EmptyNumberCase(i) =>
            /\ last[i].err = "nil"
            /\ last[i].allocs = 0
            /\ last[i].after = last[i].before
            /\ Read(Cur, last[i].cell, last[i].path) = last[i].before
            /\ last[i].cell = 0 =>
                 Get(target.val, last[i].path) = Get(pre, last[i].path)

\* a 16-bit field of a fresh target got the empty value and is still zero
C5_Witness ==
    \E i \in 1..Len(last) :
        /\ EmptyNumberCase(i)
        /\ last[i].type = Leaf("uint16")
        /\ last[i].err = "nil"
        /\ Get(target.val, last[i].path) = ZeroInt

(***************************************************************************)
(* C6                                                                      *)
(***************************************************************************)
\* C6: the same key with a compatible text, bound into fields of type T,
\* *T, **T, ... of one structure, succeeds for all of them and gives the
\* same leaf value behind the respective number of pointers.
C6_UniformPointerDepth ==
    ( /\ Done
      /\ TargetIs("Quad")
      /\ TargetName[2] \in SupportedLeaves
      /\ kv["k"].st = "ok"
      /\ Compatible(TargetName[2], kv["k"].value, timeLayout) ) =>
        /\ result = "nil"
        /\ \A d \in 1..MaxPtrDepth :
              Get(target.val, <<1, d + 1>>)
                  = Wrap(Get(target.val, <<1, 1>>), d)

(***************************************************************************)
(* C7                                                                      *)
(***************************************************************************)
\* the number a text writes
NumberOf(kind, s) == IF kind \in FloatKinds THEN ReadFloat(s).v ELSE IntOf(s)

\* C7: a pointer to a signed, unsigned or float pointee of any width and a
\* non-empty text that parses and fits the pointee: the assignment returns
\* no error, allocates one cell holding the number and stores its reference
\* in the destination.
C7_NumberPointerAssigned ==
    \A i \in 1..Len(last) :
        ( /\ last[i].kind = "assign"
          /\ last[i].type.k = "ptr"
          /\ last[i].type.elem[1].k \in NumericKinds
          /\ Compatible(last[i].type.elem[1], last[i].value, timeLayout) ) =>
            /\ last[i].err = "nil"
            /\ last[i].allocs = 1
            /\ last[i].after
                 = <<NumberOf(last[i].type.elem[1].k, last[i].value)>>

(***************************************************************************)
(* C8                                                                      *)
(***************************************************************************)
\* a call on a structure whose second field is a nested structure, direct or
\* behind pointers, is over, and the store holds a text and a number under
\* the keys of the nested structure's fields
NestedCase ==
    /\ Done
    /\ TargetIs("Outer")
    /\ kv["x"] = Entry(HelloText)
    /\ kv["y"] = Entry(<<"-", "1", "0">>)

\* the nested structure holds the text and the number, behind the pointers
\* of its field
NestedPopulated ==
    Get(target.val, <<1, 2>>)
        = Wrap(<<HelloText, IntVal(TRUE, <<1, 0>>)>>, TargetName[3])

\* C8 as stated: a field that is a nested structure (direct or behind a
\* pointer) is populated from the tags of the nested structure's fields,
\* whatever the tag of the field itself and whatever the store answers for
\* that tag (here: any answer but the absent entry of C2).
C8_NestedIgnoresParentTag ==
    (NestedCase /\ kv["p"].st # "nil") => NestedPopulated

\* C8 amended: the nested structure is populated from the tags of its own
\* fields when the field that holds it has no tag or the lookup of its tag
\* succeeds; the value resolved for that tag plays no part.
C8_NestedPopulated ==
    (NestedCase /\ (TargetName[2] = "" \/ kv["p"].st = "ok"))
        => NestedPopulated

\* a nested structure behind two pointers, in a field whose own tag resolved
\* to a text, was populated in a target that held other values before
C8_Witness ==
    /\ NestedCase
    /\ TargetName = <<"Outer", "p", 2>>
    /\ kv["p"] = Entry(HelloText)
    /\ pre = <<Populated(Struct(TargetName))>>
    /\ "p" \in {lookups[i] : i \in 1..Len(lookups)}
    /\ NestedPopulated

(***************************************************************************)
(* C9                                                                      *)
(***************************************************************************)
\* Parse was called with a valid target that is no pointer
NonPointerCase == op = "Parse" /\ target.type.k \notin {"ptr", "invalid"}

\* C9: when the target is no pointer (a structure by value), Parse returns
\* ErrNonPointerType before any lookup, and the target is unchanged.
C9_NonPointerRejected ==
    NonPointerCase =>
        /\ result = "ErrNonPointerType"
        /\ stack = <<>>
        /\ lookups = <<>>
        /\ writes = <<>>
        /\ target.val = pre

\* a structure with tagged fields was handed over by value and refused
C9_Witness ==
    /\ NonPointerCase
    /\ target.type = Struct(<<"Outer", "p", 0>>)
    /\ kv["p"] = Entry(HelloText)
    /\ result = "ErrNonPointerType"

(***************************************************************************)
(* C10                                                                     *)
(***************************************************************************)
\* C10: when the target is an untyped nil or a nil pointer of any pointer
\* type, Parse returns ErrNonPointerType.
C10_NilTargetRejected ==
    ( /\ Done
      /\ \/ target.type.k = "invalid"
         \/ target.type.k = "ptr" /\ pre = <<>> ) =>
        result = "ErrNonPointerType"
(***************************************************************************)
(* C11                                                                     *)
(***************************************************************************)
RECURSIVE Reaches(_, _)
\* no pointer on the way from the value v of type t to its referent is nil
Reaches(t, v) ==
    IF t.k = "ptr" THEN v # <<>> /\ Reaches(t.elem[1], v[1]) ELSE TRUE

\* the place of the referent in a target of type t
ReferentPath(t) == [i \in 1..DepthOf(t) |-> 1]

\* a call on a target that reaches an ordinary structure through two or
\* more pointers is over
MultiLevelCase ==
    /\ Done
    /\ DepthOf(target.type) >= 2
    /\ LeafOf(target.type).k = "struct"
    /\ ~IsTime(LeafOf(target.type))
    /\ Reaches(target.type, pre)

\* the call has the outcome c of another call, whose target is a pointer to
\* the structure
SameAsSingle(c) ==
    /\ result = c.result
    /\ lookups = c.lookups
    /\ Get(target.val, ReferentPath(target.type)) = c.target.val[1]

\* C11: Parse on a target that reaches a structure through two or more
\* pointers binds the structure as Parse on a pointer to the same structure
\* does under the same store and layout: the same lookups, the same field
\* values, the same result.
C11_MultiLevelAsSingle ==
    MultiLevelCase =>
        SameAsSingle(ParseCall(Arg(Ptr(LeafOf(target.type)),
                                   <<Get(pre, ReferentPath(target.type))>>),
                               kv, timeLayout))

\* a structure behind three pointers was bound, nested structure included
C11_Witness ==
    /\ MultiLevelCase
    /\ DepthOf(target.type) = 3
    /\ LeafOf(target.type) = Struct(<<"Outer", "", 1>>)
    /\ result = "nil"
    /\ Len(lookups) = 4
    /\ Get(target.val, <<1, 1, 1, 2>>)
         = <<<<HelloText, IntVal(TRUE, <<1, 0>>)>>>>
(***************************************************************************)
(* C12                                                                     *)
(***************************************************************************)
\* the keys looked up so far
LookedUp == {lookups[i] : i \in 1..Len(lookups)}

\* C12: a field that cannot be set (an unexported one, here between two
\* exported fields, with a tag whose lookup would fail) is skipped: its tag
\* is never looked up, its value is unchanged, it causes no error, and the
\* fields after it are bound.
C12_UnexportedSkipped ==
    TargetIs("Hidden") =>
        /\ "x" \notin LookedUp
        /\ Get(target.val, <<1, 2>>) = Get(pre, <<1, 2>>)
        /\ (Done /\ kv["s"].st = "ok") =>
              /\ lookups = <<"s", "b">>
              /\ Get(target.val, <<1, 1>>) = kv["s"].value
              /\ kv["b"].value \in TrueTexts =>
                    /\ result = "nil"
                    /\ Get(target.val, <<1, 3>>) = TRUE

\* the fields around an unexported field that held a text were bound
C12_Witness ==
    /\ TargetIs("Hidden")
    /\ Done
    /\ result = "nil"
    /\ Get(pre, <<1, 2>>) = OldText
    /\ Get(target.val, <<1>>) = <<HelloText, OldText, TRUE>>
(***************************************************************************)
(* C13                                                                     *)
(***************************************************************************)
\* a call on a structure whose field has no tag: the one field of an
\* Untagged, the nested structure of an Outer
UntaggedCase ==
    \/ TargetIs("Untagged")
    \/ TargetIs("Outer") /\ TargetName[2] = ""

\* the place and the type of that field
UntaggedPath == IF TargetName[1] = "Untagged" THEN <<1, 1>> ELSE <<1, 2>>

UntaggedType ==
    StructFields(TargetName)[UntaggedPath[2]].type

\* no lookup was made for the field: none at all in an Untagged, none but
\* those of the other fields in an Outer
NoLookupForUntagged ==
    IF TargetName[1] = "Untagged" THEN lookups = <<>>
    ELSE LookedUp \subseteq {"s", "x", "y", "b"}

\* C13 as stated: a writable field without a tag is never looked up and
\* keeps the value it had (fields with two or more pointers, the case of
\* C4, set aside).
C13_UntaggedKept ==
    (UntaggedCase /\ DepthOf(UntaggedType) <= 1) =>
        /\ NoLookupForUntagged
        /\ Get(target.val, UntaggedPath) = Get(pre, UntaggedPath)

\* C13 amended: a writable field without a tag is never looked up.  It
\* keeps the value it had when it is no structure and has at most one
\* pointer; with two or more pointers to a type that has a conversion it
\* ends as a chain of fresh pointers to a nil pointer.  (A structure or a
\* pointer to one is bound from the tags of its own fields, see C8.)
C13_UntaggedNotLookedUp ==
    UntaggedCase =>
        /\ NoLookupForUntagged
        /\ ( /\ Done
             /\ TargetName[1] = "Untagged" ) =>
               Get(target.val, UntaggedPath) =
                  IF \/ DepthOf(UntaggedType) <= 1
                     \/ LeafOf(UntaggedType) \notin SupportedLeaves
                  THEN Get(pre, UntaggedPath)
                  ELSE Wrap(<<>>, DepthOf(UntaggedType) - 1)

\* a populated number without a tag kept its value and no lookup was made
C13_Witness ==
    /\ TargetIs("Untagged")
    /\ Done
    /\ result = "nil"
    /\ UntaggedType = Leaf("int16")
    /\ lookups = <<>>
    /\ Get(target.val, <<1, 1>>) = IntVal(FALSE, <<7>>)
(***************************************************************************)
(* C14                                                                     *)
(***************************************************************************)
\* the call of assign last[i] had a destination of a kind without a
\* conversion (a map), direct or behind pointers
UnhandledCase(i) ==
    /\ last[i].kind = "assign"
    /\ LeafOf(last[i].type).k = "map"

\* C14: a destination whose kind, or whose pointee's kind, has no
\* conversion (a map) makes the assignment return ErrUnhandledKind, which
\* Parse returns, and nothing is written to the destination; so for a
\* target that is itself a pointer to such a referent.
C14_UnhandledKind ==
    /\ \A i \in 1..Len(last) :
          UnhandledCase(i) =>
              /\ last[i].err = "ErrUnhandledKind"
              /\ last[i].after = last[i].before
              /\ result = "ErrUnhandledKind"
              /\ last[i].cell = 0
              /\ Get(target.val, last[i].path) = Get(pre, last[i].path)
              /\ writes = <<>>
    /\ ( /\ Done
         /\ LeafOf(target.type).k = "map"
         /\ Reaches(target.type, pre) ) =>
           /\ result = "ErrUnhandledKind"
           /\ target.val = pre

\* a pointer to a pointer to a map got a text and was refused, the field
\* still nil
C14_Witness ==
    \E i \in 1..Len(last) :
        /\ UnhandledCase(i)
        /\ last[i].type = PtrN(Leaf("map"), 2)
        /\ last[i].value = HelloText
        /\ last[i].err = "ErrUnhandledKind"
        /\ Get(target.val, last[i].path) = <<>>
(***************************************************************************)
(* C15                                                                     *)
(***************************************************************************)
\* C15: SetTimeLayout with the empty layout returns ErrEmptyLayout and
\* leaves the layout as it was; the layout is empty in no reachable state.
C15_EmptyLayoutRejected ==
    /\ [](timeLayout # EmptyLayout)
    /\ [][SetTimeLayout(EmptyLayout) =>
             /\ result' = "ErrEmptyLayout"
             /\ timeLayout' = timeLayout]_vars

\* the empty layout was refused after another layout had been set
C15_Witness ==
    /\ op = "SetTimeLayout"
    /\ result = "ErrEmptyLayout"
    /\ timeLayout = DateOnly
(***************************************************************************)
(* C16                                                                     *)
(***************************************************************************)
\* the call of assign last[i] parsed a text into a temporal destination,
\* direct or behind pointers
TemporalCase(i) ==
    /\ last[i].kind = "assign"
    /\ IsTime(LeafOf(last[i].type))
    /\ last[i].value # <<>>

\* the temporal parses that just returned used the layout
UsesLayout(layout) ==
    \A i \in 1..Len(last) :
        TemporalCase(i) =>
            /\ last[i].err = TimeParse(layout, last[i].value).err
            /\ last[i].err = "nil" =>
                  last[i].after = Wrap(TimeParse(layout, last[i].value).v,
                                       DepthOf(last[i].type))

LeafTargetCase ==
    /\ Done
    /\ target.type.k = "ptr"
    /\ LeafOf(target.type) \in SupportedLeaves
    /\ Reaches(target.type, pre)

\* C17: when the pointers of the target end at a referent that is no
\* structure and of a supported kind (a nil dynamic slot behind three
\* pointers), Parse makes no lookup, returns nil and leaves the referent
\* as it was.
C17_LeafTargetUntouched ==
    LeafTargetCase =>
        /\ result = "nil"
        /\ lookups = <<>>
        /\ allocs = 0
        /\ writes = <<>>
        /\ target.val = pre

\* the call on a nil dynamic slot behind three pointers returned nil
C17_Witness ==
    /\ LeafTargetCase
    /\ target.type = PtrN(Leaf("interface"), 3)
    /\ pre = Wrap(<<>>, 3)
    /\ result = "nil"
(***************************************************************************)
(* C18                                                                     *)
(***************************************************************************)
\* the call of assign last[i] on a pointer destination returned an error
PointerFailedCase(i) ==
    /\ last[i].kind = "assign"
    /\ last[i].type.k = "ptr"
    /\ last[i].err \in ReturnedErrors

\* C18: when the assignment to a pointer destination returns an error (of
\* a conversion, of the range check, of an unhandled kind, of an inner
\* pointer level or of the recursion into the pointed-to structure), the
\* destination holds what it held before the call.
C18_FailedPointerKept ==
    \A i \in 1..Len(last) :
        PointerFailedCase(i) =>
            /\ last[i].after = last[i].before
            /\ last[i].cell = 0 =>
                  /\ Get(target.val, last[i].path) = last[i].before
                  /\ Get(pre, last[i].path) = last[i].before

\* the recursion into a structure behind two pointers failed at its second
\* field, and the field still holds the pointers the caller left there
C18_Witness ==
    \E i \in 1..Len(last) :
        /\ PointerFailedCase(i)
        /\ last[i].type = PtrN(Struct(<<"Inner">>), 2)
        /\ last[i].err = "ErrRange"
        /\ last[i].allocs > 0
        /\ last[i].before = Populated(last[i].type)
        /\ Get(target.val, <<1, 2>>) = last[i].before
(***************************************************************************)
(* C19                                                                     *)
(***************************************************************************)
RECURSIVE TagOrder(_, _, _)
\* the keys of the fields i, i+1, ... of a structure in depth-first
\* declaration order: the key of each field that can be set and has one,
\* then the keys of the structure the field is or points to
TagOrder(name, i, n) ==
    IF n = 0 \/ i > Len(StructFields(name)) THEN <<>>
    ELSE (IF ~StructFields(name)[i].exported THEN <<>>
          ELSE (IF StructFields(name)[i].tag = "" THEN <<>>
                ELSE <<StructFields(name)[i].tag>>)
               \o (IF /\ LeafOf(StructFields(name)[i].type).k = "struct"
                      /\ ~IsTime(LeafOf(StructFields(name)[i].type))
                   THEN TagOrder(LeafOf(StructFields(name)[i].type).name, 1,
                                 n - 1)
                   ELSE <<>>))
         \o TagOrder(name, i + 1, n)

\* s is the beginning of t
IsPrefix(s, t) == Len(s) <= Len(t) /\ s = SubSeq(t, 1, Len(s))

RECURSIVE FieldAt(_, _)
\* the field at a place of a value of type t
FieldAt(t, path) ==
    IF t.k = "ptr" THEN FieldAt(t.elem[1], Tail(path))
    ELSE IF Len(path) = 1 THEN StructFields(t.name)[path[1]]
    ELSE FieldAt(StructFields(t.name)[path[1]].type, Tail(path))

\* the structure the target reaches
Root == LeafOf(target.type)

\* the target reaches an ordinary structure that parse walks
Walks ==
    /\ op = "Parse"
    /\ target.type.k = "ptr"
    /\ Root.k = "struct"
    /\ ~IsTime(Root)
    /\ Reaches(target.type, pre)

\* the lookups so far are the beginning of the keys of the target in
\* depth-first declaration order, each once; all but the last succeeded
\* (none follows a failed one); they are all of them when Parse returns
\* nil; the text a field of the target was assigned is the one looked up
\* under its key; and without a walk there is no lookup
LookupsInOrder ==
    /\ Walks =>
          /\ IsPrefix(lookups, TagOrder(Root.name, 1, MaxNesting))
          /\ \A i \in 1..(Len(lookups) - 1) : kv[lookups[i]].st = "ok"
          /\ result = "nil" => lookups = TagOrder(Root.name, 1, MaxNesting)
          /\ \A i \in 1..Len(last) :
                ( /\ last[i].kind = "assign"
                  /\ last[i].cell = 0
                  /\ FieldAt(target.type, last[i].path).tag # "" ) =>
                    /\ FieldAt(target.type, last[i].path).tag \in LookedUp
                    /\ last[i].value
                         = kv[FieldAt(target.type, last[i].path).tag].value
    /\ ~Walks => lookups = <<>>

\* C19: the lookups of a call follow the depth-first declaration order of
\* the fields, one for each reached field that can be set and has a key,
\* issued before the field is assigned, and none after the first lookup
\* or conversion that failed; a step makes at most one lookup.
C19_LookupsInOrder ==
    /\ [](LookupsInOrder)
    /\ [][op' = "Parse" /\ op = "Parse" =>
             /\ IsPrefix(lookups, lookups')
             /\ Len(lookups') <= Len(lookups) + 1
             /\ result # "running" => lookups' = lookups]_vars

\* a call looked up the keys of a structure and of the structure nested in
\* it behind a pointer, up to a conversion that failed in the nested one
C19_Witness ==
    /\ Walks
    /\ Done
    /\ Root = Struct(<<"Outer", "p", 1>>)
    /\ lookups = <<"s", "p", "x", "y">>
    /\ result = "ErrRange"
(***************************************************************************)
(* C20                                                                     *)
(***************************************************************************)
\* C20: every Parse call terminates, returning nil or an error after
\* finitely many lookups and allocations, whatever the target type, a
\* structure with a pointer field to its own type included: no call goes
\* on calling parse until the stack is exhausted.
C20_ParseTerminates == op = "Parse" => result # "StackOverflow"
(***************************************************************************)
(* C21                                                                     *)
(***************************************************************************)
\* the call i can go no further: it returned, or the process ended
Over(i) == par.dead \/ par.calls[i].stack = <<>>

\* the call i ended as the call c did
EndedAs(i, c) ==
    /\ par.calls[i].result = c.result
    /\ par.calls[i].target.val = c.target.val

\* C21: two calls of Parse that run at the same time on targets that share
\* nothing, with no SetTimeLayout meanwhile, each finish with the result
\* and the target contents of the same call run alone.
C21_ConcurrentAsAlone ==
    \A i \in 1..Len(par.calls) :
        Over(i) => EndedAs(i, ParseCall(par.args[i], kv, timeLayout))

\* the same, as long as no call panics or exhausts the stack
C21_AsAloneWithoutCrash ==
    \A i \in 1..Len(par.calls) :
        ( /\ Over(i)
          /\ \A j \in 1..Len(par.calls) :
                par.calls[j].result \notin Crashes ) =>
            EndedAs(i, ParseCall(par.args[i], kv, timeLayout))
====
